---------------------------- MODULE Spec2Model ----------------------------
(***************************************************************************)
(* TabSurvey: the feed-forward model's fit / predict / checkpoint cycle    *)
(* (models/mlp.py), the model registry (models/__init__.py) and the        *)
(* evaluation driver (evaluate.py).                                        *)
(*                                                                         *)
(* Abstractions.  Learned parameters are identified by the optimizer step  *)
(* that produced them: [by |-> instance, step |-> k] is the state_dict of  *)
(* instance `by` after its k-th optimizer step (k = 0: as constructed).    *)
(* A validation loss is a number in 0..MaxLoss; float("inf") is MaxLoss+1. *)
(* The rows of an input array are identified by their position 1..N, and   *)
(* the forward pass maps each input row to one output row.                 *)
(***************************************************************************)
EXTENDS Naturals, Sequences, FiniteSets

\* ------------------------------------------------------------------ bounds
MaxEpochs == 2
MaxBatches == 3
MaxRounds == 1
MaxLoss == 1
MaxRows == 3
MaxBatchSize == 3
MaxCalls == 2
MaxRecords == 2

VARIABLES
    \* run configuration and hyperparameters, shared by every process that
    \* runs the same model on the same dataset
    args,               \* [epochs, early_stopping_rounds]
    params,             \* [batch_size]
    train_batches,      \* len(train_loader)
    X_rows,             \* number of rows of the array given to predict
    active,             \* the processes that run fit / predict
    \* the state of each MLP instance (one per process)
    pc, epoch, i, min_val_loss, min_val_loss_idx, weights,
    predictions, order, error,
    \* what each process has printed (one line per training step) and the
    \* training steps at which it called save_model
    log, saves,
    \* the filesystem: path -> <<>> (no file) or <<state_dict>>
    files,
    \* the registry
    loaded, requested, result,
    \* the evaluation driver
    main_pc, preds, pred_i, scorer_log, main_result

mlp_vars == <<args, params, train_batches, X_rows, active, pc, epoch, i,
              min_val_loss, min_val_loss_idx, weights, predictions, order,
              error, log, saves, files>>
registry_vars == <<loaded, requested, result>>
driver_vars == <<main_pc, preds, pred_i, scorer_log, main_result>>
vars == <<mlp_vars, registry_vars, driver_vars>>

\* ----------------------------------------------------------------- helpers
Procs == {1, 2}

Last(s) == s[Len(s)]

RECURSIVE SetMin(_)
SetMin(S) ==
    LET x == CHOOSE y \in S : TRUE
    IN  IF S = {x} THEN x
        ELSE LET m == SetMin(S \ {x}) IN IF x < m THEN x ELSE m

RECURSIVE SetMax(_)
SetMax(S) ==
    LET x == CHOOSE y \in S : TRUE
    IN  IF S = {x} THEN x
        ELSE LET m == SetMax(S \ {x}) IN IF x > m THEN x ELSE m

\* the orders in which a shuffling sampler can visit n rows
RandomSampler(n) ==
    {s \in [1..n -> 1..n] : \A a, b \in 1..n : a # b => s[a] # s[b]}

\* ------------------------------------------------------------- MLP: values
Inf == MaxLoss + 1
Losses == 0..MaxLoss

\* the state_dict of an instance that nobody has trained yet
initial_weights(p) == [by |-> p, step |-> 0]
\* a checkpoint left under tmp/ by an earlier run
stale_weights == [by |-> 0, step |-> 0]

\* optimizer.step(): the parameters change
optimizer_step(w) == [w EXCEPT !.step = @ + 1]

\* utils.io_utils.get_output_path: a pure function of its arguments
get_output_path(directory, filename, extension, file_type) ==
    <<directory, filename, extension, file_type>>

Paths == {get_output_path("tmp", "m", "best", "pt"),
          get_output_path("models", "m", "", "pt")}

\* (variant: a save that never replaces a checkpoint another instance wrote)
save_model_exclusive(fs, w, filename_extension, directory) ==
    LET path == get_output_path(directory, "m", filename_extension, "pt")
    IN  IF fs[path] # <<>> /\ fs[path][1].by \notin {0, w.by}
        THEN fs
        ELSE [fs EXCEPT ![path] = <<w>>]

\* save_model: torch.save(self.state_dict(), filename)
save_model(fs, w, filename_extension, directory) ==
    [fs EXCEPT ![get_output_path(directory, "m", filename_extension, "pt")] = <<w>>]

\* (variant: the instance keeps the parameters it has in memory)
load_model_skip(fs, w, filename_extension, directory) == <<w>>

\* load_model: torch.load(filename), then load_state_dict.  <<>> stands for
\* the FileNotFoundError of a missing file.
load_model(fs, w, filename_extension, directory) ==
    fs[get_output_path(directory, "m", filename_extension, "pt")]

\* (variant: a global count of the training steps)
current_idx_global(bi, ep) == ep * train_batches + bi + 1

\* current_idx = (i + 1) * (epoch + 1)
current_idx(bi, ep) == (bi + 1) * (ep + 1)

\* (variants: the comparison reversed; an equal loss counted as better)
improved_reversed(val_loss, min_loss) == val_loss > min_loss
improved_or_equal(val_loss, min_loss) == val_loss <= min_loss

\* if val_loss < min_val_loss
improved(val_loss, min_loss) == val_loss < min_loss

\* if min_val_loss_idx + self.args.early_stopping_rounds < current_idx
early_stop(min_idx, rounds, idx) == min_idx + rounds < idx

\* DataLoader(batch_size=bs, shuffle=True): the sampler's order cut into
\* consecutive batches of bs rows, the last one possibly shorter
num_batches(n, bs) == (n + bs - 1) \div bs
batches(perm, bs) ==
    [b \in 1..num_batches(Len(perm), bs) |->
        SubSeq(perm, (b - 1) * bs + 1,
               IF b * bs < Len(perm) THEN b * bs ELSE Len(perm))]

\* self.forward on a batch: one output row per input row
forward(w, batch) == [r \in 1..Len(batch) |-> [row |-> batch[r], w |-> w]]

\* np.concatenate of a non-empty list of arrays (it raises ValueError on an
\* empty list: see Predict)
RECURSIVE np_concatenate(_)
np_concatenate(arrays) ==
    IF Len(arrays) = 0 THEN <<>>
    ELSE arrays[1] \o np_concatenate(Tail(arrays))

\* -------------------------------------------------------------- MLP: steps
\* fit, lines 53-85: the optimizer, the loaders, min_val_loss, min_val_loss_idx
Fit(p) ==
    /\ p \in active
    /\ pc[p] = "constructed"
    /\ pc' = [pc EXCEPT ![p] = "training"]
    /\ epoch' = [epoch EXCEPT ![p] = 0]
    /\ i' = [i EXCEPT ![p] = 0]
    /\ min_val_loss' = [min_val_loss EXCEPT ![p] = Inf]
    /\ min_val_loss_idx' = [min_val_loss_idx EXCEPT ![p] = 0]
    /\ UNCHANGED <<args, params, train_batches, X_rows, active, weights,
                   predictions, order, error, log, saves, files>>
    /\ UNCHANGED <<registry_vars, driver_vars>>

\* fit, lines 88-128: one training batch, its validation pass, the
\* checkpoint of a new best, the early-stopping test, and the loop's advance
TrainStep(p) ==
    /\ p \in active
    /\ pc[p] = "training"
    /\ epoch[p] < args.epochs
    /\ train_batches > 0
    /\ \E val_loss \in Losses :
        LET w == optimizer_step(weights[p])
            idx == current_idx(i[p], epoch[p])
            better == improved(val_loss, min_val_loss[p])
            new_idx == IF better THEN idx ELSE min_val_loss_idx[p]
            stop == early_stop(new_idx, args.early_stopping_rounds, idx)
        IN  /\ weights' = [weights EXCEPT ![p] = w]
            /\ log' = [log EXCEPT ![p] =
                         Append(@, [epoch |-> epoch[p], step |-> i[p],
                                    val_loss |-> val_loss])]
            /\ min_val_loss' = [min_val_loss EXCEPT ![p] =
                                  IF better THEN val_loss ELSE @]
            /\ min_val_loss_idx' = [min_val_loss_idx EXCEPT ![p] = new_idx]
            /\ files' = IF better THEN save_model(files, w, "best", "tmp")
                        ELSE files
            /\ saves' = [saves EXCEPT ![p] =
                           IF better THEN Append(@, Len(log[p]) + 1) ELSE @]
            /\ IF stop
               THEN /\ pc' = [pc EXCEPT ![p] = "fitted"]
                    /\ UNCHANGED <<epoch, i>>
               ELSE /\ pc' = pc
                    /\ IF i[p] + 1 < train_batches
                       THEN /\ i' = [i EXCEPT ![p] = @ + 1]
                            /\ epoch' = epoch
                       ELSE /\ i' = [i EXCEPT ![p] = 0]
                            /\ epoch' = [epoch EXCEPT ![p] = @ + 1]
    /\ UNCHANGED <<args, params, train_batches, X_rows, active, predictions,
                   order, error>>
    /\ UNCHANGED <<registry_vars, driver_vars>>

\* fit, line 87: the epochs are used up (or the loader yields no batch)
FitReturn(p) ==
    /\ p \in active
    /\ pc[p] = "training"
    /\ (epoch[p] >= args.epochs \/ train_batches = 0)
    /\ pc' = [pc EXCEPT ![p] = "fitted"]
    /\ UNCHANGED <<args, params, train_batches, X_rows, active, epoch, i,
                   min_val_loss, min_val_loss_idx, weights, predictions,
                   order, error, log, saves, files>>
    /\ UNCHANGED <<registry_vars, driver_vars>>

\* predict, lines 130-154
Predict(p) ==
    /\ p \in active
    /\ pc[p] = "fitted"
    /\ LET state_dict == load_model(files, weights[p], "best", "tmp")
       IN  IF state_dict = <<>>
           THEN \* torch.load: FileNotFoundError
                /\ pc' = [pc EXCEPT ![p] = "failed"]
                /\ error' = [error EXCEPT ![p] = "FileNotFoundError"]
                /\ UNCHANGED <<weights, predictions, order>>
           ELSE \E perm \in RandomSampler(X_rows) :
                LET w == state_dict[1]
                    test_loader == batches(perm, params.batch_size)
                    outs == [b \in 1..Len(test_loader) |->
                                forward(w, test_loader[b])]
                IN  /\ weights' = [weights EXCEPT ![p] = w]
                    /\ order' = [order EXCEPT ![p] = perm]
                    /\ IF Len(outs) = 0
                       THEN \* np.concatenate([]): ValueError
                            /\ pc' = [pc EXCEPT ![p] = "failed"]
                            /\ error' = [error EXCEPT ![p] = "ValueError"]
                            /\ predictions' = [predictions EXCEPT ![p] = <<>>]
                       ELSE /\ pc' = [pc EXCEPT ![p] = "predicted"]
                            /\ error' = error
                            /\ predictions' = [predictions EXCEPT ![p] =
                                                 np_concatenate(outs)]
    /\ UNCHANGED <<args, params, train_batches, X_rows, active, epoch, i,
                   min_val_loss, min_val_loss_idx, log, saves, files>>
    /\ UNCHANGED <<registry_vars, driver_vars>>

\* ------------------------------------------------------ initial conditions
RegistryIdle ==
    /\ loaded = {}
    /\ requested = <<>>
    /\ result = [kind |-> "none"]

DriverIdle ==
    /\ main_pc = "idle"
    /\ preds = <<>>
    /\ pred_i = 0
    /\ scorer_log = <<>>
    /\ main_result = <<>>

InstancesConstructed ==
    /\ pc = [p \in Procs |-> "constructed"]
    /\ epoch = [p \in Procs |-> 0]
    /\ i = [p \in Procs |-> 0]
    /\ min_val_loss = [p \in Procs |-> Inf]
    /\ min_val_loss_idx = [p \in Procs |-> 0]
    /\ weights = [p \in Procs |-> initial_weights(p)]
    /\ predictions = [p \in Procs |-> <<>>]
    /\ order = [p \in Procs |-> <<>>]
    /\ error = [p \in Procs |-> ""]
    /\ log = [p \in Procs |-> <<>>]
    /\ saves = [p \in Procs |-> <<>>]

\* tmp/ may hold the "best" checkpoint of an earlier run
FilesOnDisk ==
    /\ files \in [Paths -> {<<>>, <<stale_weights>>}]
    /\ files[get_output_path("models", "m", "", "pt")] = <<>>

\* no instance is trained
MLPIdle ==
    /\ args = [epochs |-> 0, early_stopping_rounds |-> 0]
    /\ train_batches = 0
    /\ params = [batch_size |-> 1]
    /\ X_rows = 0
    /\ active = {}
    /\ InstancesConstructed
    /\ files = [f \in Paths |-> <<>>]

\* one process; every training configuration, one row to predict
InitFit ==
    /\ args \in [epochs : 0..MaxEpochs, early_stopping_rounds : 0..MaxRounds]
    /\ train_batches \in 0..MaxBatches
    /\ params = [batch_size |-> 1]
    /\ X_rows = 1
    /\ active = {1}

\* one process; one training step, every input size and batch size
InitPredict ==
    /\ args = [epochs |-> 1, early_stopping_rounds |-> 0]
    /\ train_batches = 1
    /\ params \in [batch_size : 1..MaxBatchSize]
    /\ X_rows \in 0..MaxRows
    /\ active = {1}

\* two processes that run the same model on the same dataset
RaceConfig ==
    /\ args \in [epochs : {1}, early_stopping_rounds : 0..MaxRounds]
    /\ train_batches \in 1..MaxBatches
    /\ params = [batch_size |-> 1]
    /\ X_rows = 1
    /\ active = {1, 2}

Init ==
    /\ (InitFit \/ InitPredict)
    /\ InstancesConstructed
    /\ FilesOnDisk
    /\ RegistryIdle
    /\ DriverIdle

Next == \E p \in Procs : Fit(p) \/ TrainStep(p) \/ FitReturn(p) \/ Predict(p)

Spec == Init /\ [][Next]_vars

InitRace ==
    /\ RaceConfig
    /\ InstancesConstructed
    /\ FilesOnDisk
    /\ RegistryIdle
    /\ DriverIdle

SpecRace == InitRace /\ [][Next]_vars

\* ---------------------------------------------------------------- registry
\* what a call of str2model yields: a returned class, after the import of
\* its module, or a raised exception
Return(module, class) ==
    [kind |-> "return", module |-> module, value |-> class,
     exception |-> "", message |-> ""]
Raise(exception, message) ==
    [kind |-> "raise", module |-> "", value |-> "",
     exception |-> exception, message |-> message]

\* (variant: the message does not name the model)
not_implemented_generic(model) ==
    Raise("NotImplementedError", "Model not yet implemented")

\* the else branch: raise NotImplementedError("Model \"" + model + "\" not yet implemented")
not_implemented(model) ==
    Raise("NotImplementedError", "Model \"" \o model \o "\" not yet implemented")

\* the if / elif chain
str2model(model) ==
    CASE model = "LinearModel" -> Return("models.baseline_models", "LinearModel")
      [] model = "KNN" -> Return("models.baseline_models", "KNN")
      [] model = "SVM" -> Return("models.baseline_models", "SVM")
      [] model = "DecisionTree" -> Return("models.baseline_models", "DecisionTree")
      [] model = "RandomForest" -> Return("models.baseline_models", "RandomForest")
      [] model = "XGBoost" -> Return("models.tree_models", "XGBoost")
      [] model = "CatBoost" -> Return("models.tree_models", "CatBoost")
      [] model = "LightGBM" -> Return("models.tree_models", "LightGBM")
      [] model = "MLP" -> Return("models.mlp", "MLP")
      [] model = "ModelTree" -> Return("models.modeltree", "ModelTree")
      [] model = "TabNet" -> Return("models.tabnet", "TabNet")
      [] model = "VIME" -> Return("models.vime", "VIME")
      [] model = "TabTransformer" -> Return("models.tabtransformer", "TabTransformer")
      [] model = "NODE" -> Return("models.node", "NODE")
      [] model = "DeepGBM" -> Return("models.deepgbm", "DeepGBM")
      [] model = "RLN" -> Return("models.rln", "RLN")
      [] model = "DNFNet" -> Return("models.dnf", "DNFNet")
      [] model = "STG" -> Return("models.stochastic_gates", "STG")
      [] OTHER -> not_implemented(model)

\* the names a caller may pass: the registered ones and some others
ModelNames ==
    {"LinearModel", "KNN", "SVM", "DecisionTree", "RandomForest", "XGBoost",
     "CatBoost", "LightGBM", "MLP", "ModelTree", "TabNet", "VIME",
     "TabTransformer", "NODE", "DeepGBM", "RLN", "DNFNet", "STG",
     "Foo", "nonexistent-model", "mlp", ""}

\* "from models.x import X": the module models.x is loaded, with what it
\* depends on itself, and no other implementation module
import_from(modules, module) == modules \cup {module}

\* (variant: every implementation module is imported on the first call, as
\* with the import statements at the top of the file)
Str2Model_eager(name) ==
    /\ Len(requested) < MaxCalls
    /\ requested' = Append(requested, name)
    /\ result' = str2model(name)
    /\ loaded' = {str2model(n).module : n \in ModelNames} \ {""}
    /\ UNCHANGED <<mlp_vars, driver_vars>>

\* one call str2model(name): the import statement of the branch taken, then
\* its return; the else branch imports nothing
Str2Model(name) ==
    /\ Len(requested) < MaxCalls
    /\ requested' = Append(requested, name)
    /\ result' = str2model(name)
    /\ loaded' = IF str2model(name).kind = "return"
                 THEN import_from(loaded, str2model(name).module)
                 ELSE loaded
    /\ UNCHANGED <<mlp_vars, driver_vars>>

InitRegistry == RegistryIdle /\ MLPIdle /\ DriverIdle
NextRegistry == \E name \in ModelNames : Str2Model(name)
SpecRegistry == InitRegistry /\ [][NextRegistry]_vars

\* ------------------------------------------------------- evaluation driver
\* np.argmax of one row: the first position of the maximum, counted from 0
np_argmax(row) ==
    (CHOOSE j \in 1..Len(row) :
        /\ \A h \in 1..Len(row) : row[h] <= row[j]
        /\ \A h \in 1..(j - 1) : row[h] < row[j]) - 1

\* truth = pred[:, 0]
truth_col(pred) == [r \in 1..Len(pred) |-> pred[r][1]]
\* (variant: the slice keeps column 0)
out_cols_all(pred) == [r \in 1..Len(pred) |-> pred[r]]
\* out = pred[:, 1:]
out_cols(pred) == [r \in 1..Len(pred) |-> Tail(pred[r])]
\* pred_label = np.argmax(out, axis=1)
argmax_rows(out) == [r \in 1..Len(out) |-> np_argmax(out[r])]

\* the scorer, as the driver sees it: it keeps what eval was given and
\* get_results reduces all of it
scorer_eval(calls, truth, pred_label, out) ==
    Append(calls, [call |-> "eval", truth |-> truth,
                   pred_label |-> pred_label, out |-> out])
scorer_get_results(calls) ==
    [folds |-> Len(SelectSeq(calls, LAMBDA c : c.call = "eval"))]

\* main, lines 10-13: the predictions are loaded, the scorer is made
MainBegin ==
    /\ main_pc = "start"
    /\ main_pc' = "loop"
    /\ pred_i' = 1
    /\ scorer_log' = <<>>
    /\ UNCHANGED <<preds, main_result>>
    /\ UNCHANGED <<mlp_vars, registry_vars>>

\* main, lines 15-22: one turn of the loop
MainEval ==
    /\ main_pc = "loop"
    /\ pred_i <= Len(preds)
    /\ LET pred == preds[pred_i]
           truth == truth_col(pred)
           out == out_cols(pred)
           pred_label == argmax_rows(out)
       IN  scorer_log' = scorer_eval(scorer_log, truth, pred_label, out)
    /\ pred_i' = pred_i + 1
    /\ UNCHANGED <<main_pc, preds, main_result>>
    /\ UNCHANGED <<mlp_vars, registry_vars>>

\* main, lines 24-25: after the loop
MainResults ==
    /\ main_pc = "loop"
    /\ pred_i > Len(preds)
    /\ scorer_log' = Append(scorer_log,
                            [call |-> "get_results", truth |-> <<>>,
                             pred_label |-> <<>>, out |-> <<>>])
    /\ main_result' = <<scorer_get_results(scorer_log)>>
    /\ main_pc' = "done"
    /\ UNCHANGED <<preds, pred_i>>
    /\ UNCHANGED <<mlp_vars, registry_vars>>

\* the rows a prediction record can hold: the truth, then either one
\* predicted value or two class scores (the maximum first, last or tied)
RecordRows(outputs) ==
    IF outputs = 1
    THEN {<<t, v>> : t \in {0, 1}, v \in {0, 1}}
    ELSE {<<t, a, b>> : t \in {0, 1}, a \in {0, 1}, b \in {0, 1}}
\* records of no, one or two rows
Records(outputs) ==
    {<<>>} \cup {<<r>> : r \in RecordRows(outputs)}
        \cup {<<r1, r2>> : r1 \in {r \in RecordRows(outputs) : r[1] = 0},
                           r2 \in {r \in RecordRows(outputs) : r[1] = 1}}
RecordLists(outputs) ==
    UNION {[1..k -> Records(outputs)] : k \in 0..MaxRecords}

\* what get_predictions_from_file will return is on disk when main starts
InitDriver ==
    /\ main_pc = "start"
    /\ preds \in RecordLists(1) \cup RecordLists(2)
    /\ pred_i = 0
    /\ scorer_log = <<>>
    /\ main_result = <<>>
    /\ RegistryIdle
    /\ MLPIdle
NextDriver == MainBegin \/ MainEval \/ MainResults
SpecDriver == InitDriver /\ [][NextDriver]_vars

\* --------------------------------------------------- MLP: reading the log
\* What the claims speak of, computed from the lines a process has printed
\* (epoch, step, validation loss of every training step), not from the
\* instance's own bookkeeping.
BestPath == get_output_path("tmp", "m", "best", "pt")
Steps(p) == Len(log[p])
Returned(p) == pc[p] \in {"fitted", "predicted", "failed"}
\* fit returned from inside the loop (the loop position was not advanced)
ReturnedEarly(p) ==
    Returned(p) /\ epoch[p] < args.epochs /\ train_batches > 0
RunningMin(p, k) ==
    IF k = 0 THEN Inf ELSE SetMin({log[p][j].val_loss : j \in 1..k})
StrictlyImproves(p, k) == log[p][k].val_loss < RunningMin(p, k - 1)
ImprovingSteps(p, k) == {j \in 1..k : StrictlyImproves(p, j)}
LastImprovement(p, k) ==
    IF ImprovingSteps(p, k) = {} THEN 0 ELSE SetMax(ImprovingSteps(p, k))
StepIndex(p, k) == (log[p][k].step + 1) * (log[p][k].epoch + 1)
BestStepIndex(p, k) ==
    IF LastImprovement(p, k) = 0 THEN 0
    ELSE StepIndex(p, LastImprovement(p, k))
StepsSinceImprovement(p, k) == k - LastImprovement(p, k)
WeightsAfter(p, k) == [by |-> p, step |-> k]

\* ------------------------------------------------------------ MLP: claims
\* C1 (as stated): for every input X with N rows, every batch size and every
\* shuffle order, predict returns an array of exactly N rows, one output row
\* per input row, concatenated in iteration order.
C1_PredictReturnsNRows ==
    \A p \in active :
        /\ error[p] # "ValueError"
        /\ pc[p] = "predicted" =>
            /\ Len(predictions[p]) = X_rows
            /\ {predictions[p][r].row : r \in 1..Len(predictions[p])} = 1..X_rows
            /\ \A r \in 1..Len(predictions[p]) : predictions[p][r].row = order[p][r]

\* C1, for inputs of at least one row: whenever predict could load the
\* checkpoint it returns N rows, in the sampler's order.
PredictReturnsNRowsNonEmpty ==
    \A p \in active :
        (X_rows >= 1 /\ pc[p] \in {"predicted", "failed"}
            /\ error[p] # "FileNotFoundError") =>
            /\ pc[p] = "predicted"
            /\ Len(predictions[p]) = X_rows
            /\ \A r \in 1..X_rows : predictions[p][r].row = order[p][r]
            /\ {order[p][r] : r \in 1..X_rows} = 1..X_rows

\* C2 (as stated): fit returns at the first training step at which more than
\* early_stopping_rounds training steps have been executed since the last
\* strict improvement of the validation loss, and not before.
C2_StopsAfterRoundsSteps ==
    \A p \in active :
        /\ \A k \in 1..Steps(p) :
              StepsSinceImprovement(p, k) > args.early_stopping_rounds
                  => (k = Steps(p) /\ ReturnedEarly(p))
        /\ ReturnedEarly(p) =>
              StepsSinceImprovement(p, Steps(p)) > args.early_stopping_rounds

\* C3: after every training step min_val_loss is the minimum of the
\* validation losses computed so far, so once fit has returned after at
\* least one step it is no greater than the first step's validation loss.
C3_MinValLossIsRunningMin ==
    \A p \in active :
        /\ min_val_loss[p] = RunningMin(p, Steps(p))
        /\ (Returned(p) /\ Steps(p) >= 1) => min_val_loss[p] <= log[p][1].val_loss

C3_Witness ==
    /\ pc[1] = "fitted"
    /\ Steps(1) >= 2
    /\ min_val_loss[1] < log[1][1].val_loss
    /\ log[1][Steps(1)].val_loss > min_val_loss[1]

\* C7: the step index of batch i of epoch e is (i+1)*(e+1); fit returns at
\* the first step whose index exceeds min_val_loss_idx + early_stopping_rounds
\* and does nothing after it; otherwise it runs epochs x batches steps.
C7_StepIndexEarlyStop ==
    \A p \in active :
        /\ \A k \in 1..Steps(p) :
              /\ log[p][k].epoch = (k - 1) \div train_batches
              /\ log[p][k].step = (k - 1) % train_batches
              /\ (StepIndex(p, k) > BestStepIndex(p, k) + args.early_stopping_rounds)
                    <=> (k = Steps(p) /\ ReturnedEarly(p))
        /\ min_val_loss_idx[p] = BestStepIndex(p, Steps(p))
        /\ (Returned(p) /\ ~ReturnedEarly(p)) =>
              Steps(p) = args.epochs * train_batches

\* fit stopped early in the second epoch, where the step index is not the
\* number of steps taken
C7_Witness ==
    /\ ReturnedEarly(1)
    /\ epoch[1] >= 1
    /\ StepIndex(1, Steps(1)) # Steps(1)
    /\ Steps(1) < args.epochs * train_batches

\* C8: the "best" checkpoint is written at a step iff that step's validation
\* loss is strictly below min_val_loss; otherwise checkpoint, min_val_loss and
\* min_val_loss_idx stay as they are.  So after the first step the checkpoint
\* exists and holds the weights of the step that set the current min_val_loss.
C8_BestCheckpoint ==
    \A p \in active :
        /\ Len(saves[p]) = Cardinality(ImprovingSteps(p, Steps(p)))
        /\ {saves[p][j] : j \in 1..Len(saves[p])} = ImprovingSteps(p, Steps(p))
        /\ Steps(p) >= 1 =>
              LET best == LastImprovement(p, Steps(p))
              IN  /\ best >= 1
                  /\ files[BestPath] = <<WeightsAfter(p, best)>>
                  /\ min_val_loss[p] = log[p][best].val_loss
                  /\ min_val_loss_idx[p] = StepIndex(p, best)

\* a step with an equal and a step with a higher validation loss, neither
\* of which was saved
C8_Witness ==
    /\ Steps(1) >= 3
    /\ \E k \in 2..Steps(1) : log[1][k].val_loss = RunningMin(1, k - 1)
    /\ \E k \in 2..Steps(1) : log[1][k].val_loss > RunningMin(1, k - 1)
    /\ Len(saves[1]) >= 2
    /\ files[BestPath] # <<WeightsAfter(1, Steps(1))>>

\* C9: predict reloads the "best" checkpoint first: after fit and predict the
\* predictions are those of the weights of the step of minimum validation
\* loss, and the instance's weights are the checkpoint's contents.
C9_PredictReloadsBest ==
    \A p \in active :
        pc[p] = "predicted" =>
            /\ files[BestPath] = <<weights[p]>>
            /\ \A r \in 1..Len(predictions[p]) : predictions[p][r].w = weights[p]
            /\ Steps(p) >= 1 =>
                  weights[p] = WeightsAfter(p, LastImprovement(p, Steps(p)))

\* the last optimizer step left other weights in memory than the best ones
C9_Witness ==
    /\ pc[1] = "predicted"
    /\ Steps(1) >= 2
    /\ LastImprovement(1, Steps(1)) < Steps(1)
    /\ Len(predictions[1]) = 1
    /\ predictions[1][1].w = WeightsAfter(1, LastImprovement(1, Steps(1)))

\* C10: two processes share the one "best" path: every save_model of either
\* overwrites it and every predict loads whatever it holds, so a process can
\* load a checkpoint the other one wrote.
C10_SharedCheckpoint ==
    [][\A p \in active :
          /\ saves'[p] # saves[p] =>
                files'[BestPath] = <<WeightsAfter(p, Last(saves'[p]))>>
          /\ (pc[p] = "fitted" /\ pc'[p] = "predicted") =>
                <<weights'[p]>> = files[BestPath]]_vars

\* process 1 saved a best checkpoint of its own, and predicted with weights
\* that process 2 wrote
C10_Witness ==
    /\ pc[1] = "predicted"
    /\ saves[1] # <<>>
    /\ weights[1].by = 2
    /\ weights[1] # WeightsAfter(1, LastImprovement(1, Steps(1)))

\* ------------------------------------------------ registry, driver: claims
Registered ==
    {"LinearModel", "KNN", "SVM", "DecisionTree", "RandomForest", "XGBoost",
     "CatBoost", "LightGBM", "MLP", "ModelTree", "TabNet", "VIME",
     "TabTransformer", "NODE", "DeepGBM", "RLN", "DNFNet", "STG"}

\* C4: for k records main calls eval(r1), ..., eval(rk), get_results(): one
\* eval per record, in order, given (column 0, the index of the maximum of
\* the other columns, the other columns); get_results once, after the last
\* eval, and its value is what main returns.
C4_DriverCallSequence ==
    LET evals == IF main_pc = "done" THEN Len(scorer_log) - 1 ELSE Len(scorer_log)
    IN  /\ main_pc = "loop" => evals = pred_i - 1
        /\ main_pc = "done" =>
              /\ evals = Len(preds)
              /\ Last(scorer_log).call = "get_results"
              /\ main_result = <<[folds |-> Len(preds)]>>
        /\ main_pc # "done" => main_result = <<>>
        /\ evals <= Len(preds)
        /\ \A j \in 1..evals :
              LET c == scorer_log[j]
                  rec == preds[j]
              IN  /\ c.call = "eval"
                  /\ Len(c.truth) = Len(rec)
                  /\ Len(c.pred_label) = Len(rec)
                  /\ Len(c.out) = Len(rec)
                  /\ \A r \in 1..Len(rec) :
                        /\ c.truth[r] = rec[r][1]
                        /\ Len(c.out[r]) = Len(rec[r]) - 1
                        /\ \A h \in 1..Len(c.out[r]) : c.out[r][h] = rec[r][h + 1]
                        /\ c.pred_label[r] \in 0..(Len(rec[r]) - 2)
                        /\ \A h \in 2..Len(rec[r]) :
                              rec[r][h] <= rec[r][c.pred_label[r] + 2]

\* main has returned after two records, one of them of two rows, with a
\* label 1 among the predicted labels
C4_Witness ==
    /\ main_pc = "done"
    /\ Len(preds) = 2
    /\ Len(preds[1]) = 2
    /\ scorer_log[2].pred_label = <<1>>
    /\ scorer_log[3].call = "get_results"

\* C5: an unregistered name raises NotImplementedError with the message
\* 'Model "<name>" not yet implemented' and returns no model; each of the 18
\* registered names returns the implementation of that name.
C5_RegistryResolution ==
    requested # <<>> =>
        LET name == Last(requested)
        IN  IF name \in Registered
            THEN /\ result.kind = "return"
                 /\ result.value = name
                 /\ result.exception = ""
            ELSE /\ result.kind = "raise"
                 /\ result.exception = "NotImplementedError"
                 /\ result.message = "Model \"" \o name \o "\" not yet implemented"
                 /\ result.value = ""

C5_Witness ==
    /\ Len(requested) = 2
    /\ requested[1] = "STG"
    /\ requested[2] = "nonexistent-model"
    /\ result.message = "Model \"nonexistent-model\" not yet implemented"

\* C6: a call loads only the module of the selected name, an unrecognized
\* name loads none: the loaded implementation modules are exactly those of
\* the recognized names requested so far.
C6_LazyLoading ==
    /\ loaded = {str2model(requested[j]).module :
                    j \in {h \in 1..Len(requested) : requested[h] \in Registered}}
    /\ Cardinality(loaded) <= Len(requested)
    /\ (requested # <<>> /\ Last(requested) \notin Registered) =>
          loaded = {str2model(requested[j]).module :
                       j \in {h \in 1..(Len(requested) - 1) : requested[h] \in Registered}}

C6_Witness ==
    /\ Len(requested) = 2
    /\ requested[1] = "MLP"
    /\ requested[2] = "Foo"
    /\ loaded = {"models.mlp"}

=============================================================================
